---------------------------- MODULE Spec2Model ----------------------------
(***************************************************************************)
(* Weighted interval scheduling (wi.py): the vertex-weighted integer graph *)
(* IntGraph, the keyed wrapper Graph, and IntervalSet, which builds the    *)
(* compatibility graph of the intervals as they are added and solves the   *)
(* scheduling problem by a maximum-cost path in that graph.                *)
(*                                                                         *)
(* Objects are records, one field per slot.  A method is an operator from  *)
(* the object (and the arguments) to a record holding the object after the *)
(* call ("self"), the exception that left the call ("err", NoError when it *)
(* returned) and the returned value.  Vertices are numbered from 0 as in   *)
(* the code; TLA+ sequences are indexed from 1, so vertex v is at v + 1.   *)
(***************************************************************************)
EXTENDS Integers, Sequences, FiniteSets

(***************************************************************************)
(* Bounds of the model.                                                    *)
(***************************************************************************)
\* Finite floats are the integers -FloatMax..FloatMax: FloatMax stands for
\* the largest finite float, so that a difference can overflow.
FloatMax == 100
\* Interval end points are drawn from 0..MaxTime (and -FloatMax).
MaxTime == 2
\* Interval weights are drawn from {1, MaxWeight}.
MaxWeight == 2
\* Number of successful IntervalSet.add calls in a behaviour.
MaxAdds == 3
\* Number of vertices and edges of a bare IntGraph.
MaxVertices == 2
MaxEdges == 2

(***************************************************************************)
(* Floats.  Python's float values are encoded as integers: the finite ones *)
(* as themselves, the three non-finite ones just outside the finite range. *)
(* The code never compares or adds a non-finite value (math.isfinite is    *)
(* tested first), so only isfinite and the subtraction need the encoding.  *)
(***************************************************************************)
PosInf == FloatMax + 1
NegInf == -(FloatMax + 1)
NaN == FloatMax + 2

isfinite(x) == -FloatMax <= x /\ x <= FloatMax

\* finish - start on two finite floats: overflows to an infinity.
FloatSub(a, b) ==
    IF a - b > FloatMax THEN PosInf
    ELSE IF a - b < -FloatMax THEN NegInf
    ELSE a - b

(***************************************************************************)
(* Exceptions.                                                             *)
(***************************************************************************)
NoError == "none"
EmptyGraphError == "ValueError: can't find max weight path in empty graph"
CyclicGraphError == "ValueError: cyclic graph cannot be topologically sorted"
OutOfRangeError == "ValueError: vertex is out of range"
DuplicateKeyError == "KeyError: vertex key already exists"
UnknownKeyError == "KeyError: key not in table"
AssertionError == "AssertionError"
NonFiniteStart == "ValueError: non-finite start"
NonFiniteFinish == "ValueError: non-finite finish"
NonFiniteWeight == "ValueError: non-finite weight"
NonFiniteDuration == "ValueError: non-finite duration"
NonpositiveDuration == "ValueError: nonpositive duration"
NonpositiveWeight == "ValueError: nonpositive weight"

\* parents[v] is None
None == -1

(***************************************************************************)
(* class IntGraph                                                          *)
(***************************************************************************)
IntGraph_init == [adj |-> <<>>, indegrees |-> <<>>, weights |-> <<>>, size |-> 0]

IntGraph_order(g) == Len(g.adj)

IntGraph_size(g) == g.size

IntGraph_ensure_exists(g, vertex) ==
    IF 0 <= vertex /\ vertex < IntGraph_order(g) THEN NoError ELSE OutOfRangeError

IntGraph_add_vertex(g, weight) ==
    LET self == [g EXCEPT !.adj = Append(@, <<>>),
                          !.indegrees = Append(@, 0),
                          !.weights = Append(@, weight)]
    IN  [self |-> self, err |-> NoError, vertex |-> IntGraph_order(self) - 1]

\* Mutant of IntGraph_increase_weight: the new weight replaces the old one.
IncreaseWeightOverwrites(g, vertex, weight) ==
    IF IntGraph_ensure_exists(g, vertex) # NoError
    THEN [self |-> g, err |-> IntGraph_ensure_exists(g, vertex)]
    ELSE [self |-> [g EXCEPT !.weights[vertex + 1] = weight], err |-> NoError]

IntGraph_increase_weight(g, vertex, weight) ==
    IF IntGraph_ensure_exists(g, vertex) # NoError
    THEN [self |-> g, err |-> IntGraph_ensure_exists(g, vertex)]
    ELSE [self |-> [g EXCEPT !.weights[vertex + 1] =
                                 IF @ >= weight THEN @ ELSE weight],
          err |-> NoError]

\* Mutant of IntGraph_add_edge: an edge that is already present is counted
\* again but not listed again.
AddEdgeListsOnce(g, src, dest) ==
    IF IntGraph_ensure_exists(g, src) # NoError
    THEN [self |-> g, err |-> IntGraph_ensure_exists(g, src)]
    ELSE IF IntGraph_ensure_exists(g, dest) # NoError
    THEN [self |-> g, err |-> IntGraph_ensure_exists(g, dest)]
    ELSE [self |-> [g EXCEPT !.adj[src + 1] =
                                 IF \E i \in 1..Len(@) : @[i] = dest
                                 THEN @ ELSE Append(@, dest),
                             !.indegrees[dest + 1] = @ + 1,
                             !.size = @ + 1],
          err |-> NoError]

IntGraph_add_edge(g, src, dest) ==
    IF IntGraph_ensure_exists(g, src) # NoError
    THEN [self |-> g, err |-> IntGraph_ensure_exists(g, src)]
    ELSE IF IntGraph_ensure_exists(g, dest) # NoError
    THEN [self |-> g, err |-> IntGraph_ensure_exists(g, dest)]
    ELSE [self |-> [g EXCEPT !.adj[src + 1] = Append(@, dest),
                             !.indegrees[dest + 1] = @ + 1,
                             !.size = @ + 1],
          err |-> NoError]

\* The vertices with no incoming edges, in increasing order.
RECURSIVE FindRootsFrom(_, _)
FindRootsFrom(indegrees, i) ==
    IF i > Len(indegrees) THEN <<>>
    ELSE IF indegrees[i] = 0 THEN <<i - 1>> \o FindRootsFrom(indegrees, i + 1)
    ELSE FindRootsFrom(indegrees, i + 1)

IntGraph_find_roots(g) == FindRootsFrom(g.indegrees, 1)

\* The inner loop of _kahn_toposort: one pass over the successors of src.
RECURSIVE KahnVisit(_, _, _)
KahnVisit(dests, indegs, roots) ==
    IF dests = <<>> THEN [indegs |-> indegs, roots |-> roots]
    ELSE LET dest == Head(dests)
             indegs1 == [indegs EXCEPT ![dest + 1] = @ - 1]
         IN  KahnVisit(Tail(dests), indegs1,
                       IF indegs1[dest + 1] = 0 THEN Append(roots, dest) ELSE roots)

\* The while loop of _kahn_toposort: roots is the deque, popped on the left.
RECURSIVE KahnLoop(_, _, _, _)
KahnLoop(adj, tsort, indegs, roots) ==
    IF roots = <<>> THEN [tsort |-> tsort, indegs |-> indegs]
    ELSE LET src == Head(roots)
             v == KahnVisit(adj[src + 1], indegs, Tail(roots))
         IN  KahnLoop(adj, Append(tsort, src), v.indegs, v.roots)

\* Mutant of KahnResult: the loop worked on self._indegrees, not on a copy.
KahnResultInPlace(g, k) ==
    IF Len(k.tsort) # IntGraph_order(g)
    THEN [self |-> [g EXCEPT !.indegrees = k.indegs],
          err |-> CyclicGraphError, tsort |-> <<>>]
    ELSE [self |-> [g EXCEPT !.indegrees = k.indegs],
          err |-> NoError, tsort |-> k.tsort]

\* Mutant of KahnResult: the length of the order is not tested.
KahnResultUnchecked(g, k) == [self |-> g, err |-> NoError, tsort |-> k.tsort]

\* The end of _kahn_toposort, k being what the while loop left.  indegs is
\* a copy (self._indegrees[:]), so the graph itself is not changed.
KahnResult(g, k) ==
    IF Len(k.tsort) # IntGraph_order(g)
    THEN [self |-> g, err |-> CyclicGraphError, tsort |-> <<>>]
    ELSE [self |-> g, err |-> NoError, tsort |-> k.tsort]

IntGraph_kahn_toposort(g) ==
    KahnResult(g, KahnLoop(g.adj, <<>>, g.indegrees, IntGraph_find_roots(g)))

\* Mutant of RelaxEdges: the comparison of a shortest-path relaxation.
RECURSIVE RelaxEdgesMin(_, _, _, _)
RelaxEdgesMin(weights, src, dests, tree) ==
    IF dests = <<>> THEN tree
    ELSE LET dest == Head(dests)
             new_cost == tree.costs[src + 1] + weights[dest + 1]
         IN  RelaxEdgesMin(weights, src, Tail(dests),
                           IF tree.costs[dest + 1] > new_cost
                           THEN [parents |-> [tree.parents EXCEPT ![dest + 1] = src],
                                 costs |-> [tree.costs EXCEPT ![dest + 1] = new_cost]]
                           ELSE tree)

\* Mutant of RelaxEdges: adds the cost of dest so far instead of its weight.
RECURSIVE RelaxEdgesAddCost(_, _, _, _)
RelaxEdgesAddCost(weights, src, dests, tree) ==
    IF dests = <<>> THEN tree
    ELSE LET dest == Head(dests)
             new_cost == tree.costs[src + 1] + tree.costs[dest + 1]
         IN  RelaxEdgesAddCost(weights, src, Tail(dests),
                               IF tree.costs[dest + 1] < new_cost
                               THEN [parents |-> [tree.parents EXCEPT ![dest + 1] = src],
                                     costs |-> [tree.costs EXCEPT ![dest + 1] = new_cost]]
                               ELSE tree)

\* The inner loop of _compute_max_weight_paths_tree: relax the edges of src.
RECURSIVE RelaxEdges(_, _, _, _)
RelaxEdges(weights, src, dests, tree) ==
    IF dests = <<>> THEN tree
    ELSE LET dest == Head(dests)
             new_cost == tree.costs[src + 1] + weights[dest + 1]
         IN  RelaxEdges(weights, src, Tail(dests),
                        IF tree.costs[dest + 1] < new_cost
                        THEN [parents |-> [tree.parents EXCEPT ![dest + 1] = src],
                              costs |-> [tree.costs EXCEPT ![dest + 1] = new_cost]]
                        ELSE tree)

\* The outer loop of _compute_max_weight_paths_tree, in topological order.
RECURSIVE RelaxInOrder(_, _, _)
RelaxInOrder(g, tsort, tree) ==
    IF tsort = <<>> THEN tree
    ELSE RelaxInOrder(g, Tail(tsort),
                      RelaxEdges(g.weights, Head(tsort), g.adj[Head(tsort) + 1], tree))

\* _compute_max_weight_paths_tree, k being what _kahn_toposort gave.
PathsTree(k, parents, costs) ==
    IF k.err # NoError
    THEN [self |-> k.self, err |-> k.err, tree |-> [parents |-> <<>>, costs |-> <<>>]]
    ELSE [self |-> k.self, err |-> NoError,
          tree |-> RelaxInOrder(k.self, k.tsort, [parents |-> parents, costs |-> costs])]

IntGraph_compute_max_weight_paths_tree(g) ==
    PathsTree(IntGraph_kahn_toposort(g),
              [i \in 1..IntGraph_order(g) |-> None], g.weights)

\* Mutant of MaxByCost: a later vertex of the same cost replaces the best.
RECURSIVE MaxByCostLast(_, _, _)
MaxByCostLast(costs, vertex, best) ==
    IF vertex >= Len(costs) THEN best
    ELSE MaxByCostLast(costs, vertex + 1,
                       IF costs[vertex + 1] >= costs[best + 1] THEN vertex ELSE best)

\* max(range(order), key=costs): the first vertex of maximal cost.
RECURSIVE MaxByCost(_, _, _)
MaxByCost(costs, vertex, best) ==
    IF vertex >= Len(costs) THEN best
    ELSE MaxByCost(costs, vertex + 1,
                   IF costs[vertex + 1] > costs[best + 1] THEN vertex ELSE best)

\* The while loop of _compute_max_cost_path_vertices: finish, its parent, ...
RECURSIVE FollowParents(_, _)
FollowParents(parents, dest) ==
    IF dest = None THEN <<>>
    ELSE <<dest>> \o FollowParents(parents, parents[dest + 1])

\* path.reverse()
Reverse(path) == [i \in 1..Len(path) |-> path[Len(path) + 1 - i]]

\* Mutant of PathTo: the path is not reversed.
PathToUnreversed(self, parents, costs, finish) ==
    [self |-> self, err |-> NoError,
     path |-> FollowParents(parents, finish),
     cost |-> costs[finish + 1]]

\* The path that ends in finish, and its cost.
PathTo(self, parents, costs, finish) ==
    [self |-> self, err |-> NoError,
     path |-> Reverse(FollowParents(parents, finish)),
     cost |-> costs[finish + 1]]

\* _compute_max_cost_path_vertices, t being what the paths tree call gave.
PathVertices(t) ==
    IF t.err # NoError
    THEN [self |-> t.self, err |-> t.err, path |-> <<>>, cost |-> 0]
    ELSE PathTo(t.self, t.tree.parents, t.tree.costs, MaxByCost(t.tree.costs, 1, 0))

\* Mutant of IntGraph_compute_max_cost_path_vertices: tests the number of
\* edges (size) where the code tests the number of vertices (order).
PathVerticesEmptyBySize(g) ==
    IF IntGraph_size(g) = 0
    THEN [self |-> g, err |-> EmptyGraphError, path |-> <<>>, cost |-> 0]
    ELSE PathVertices(IntGraph_compute_max_weight_paths_tree(g))

IntGraph_compute_max_cost_path_vertices(g) ==
    IF IntGraph_order(g) = 0
    THEN [self |-> g, err |-> EmptyGraphError, path |-> <<>>, cost |-> 0]
    ELSE PathVertices(IntGraph_compute_max_weight_paths_tree(g))

\* The vertices r of the path as WeightedVertex(vertex, weight) pairs.
WeightedVertices(r) ==
    [self |-> r.self, err |-> r.err,
     path |-> [i \in 1..Len(r.path) |->
                  [vertex |-> r.path[i], weight |-> r.self.weights[r.path[i] + 1]]],
     cost |-> r.cost]

IntGraph_compute_max_cost_path(g) ==
    WeightedVertices(IntGraph_compute_max_cost_path_vertices(g))

(***************************************************************************)
(* class Graph: keys is the list _keys, table the dict _table (a function  *)
(* from the keys to their vertices), graph the IntGraph _graph.            *)
(***************************************************************************)
Graph_init == [keys |-> <<>>, table |-> [k \in {} |-> 0], graph |-> IntGraph_init]

Graph_order(G) == IntGraph_order(G.graph)

Graph_size(G) == IntGraph_size(G.graph)

Graph_vertices(G) == G.keys

Graph_add_vertex(G, key, weight) ==
    IF key \in DOMAIN G.table
    THEN [self |-> G, err |-> DuplicateKeyError]
    ELSE LET a == IntGraph_add_vertex(G.graph, weight)
             index == a.vertex
         IN  IF index # Len(G.keys)
             THEN [self |-> [G EXCEPT !.graph = a.self], err |-> AssertionError]
             ELSE [self |-> [keys |-> Append(G.keys, key),
                             table |-> [k \in DOMAIN G.table \cup {key} |->
                                           IF k = key THEN index ELSE G.table[k]],
                             graph |-> a.self],
                   err |-> NoError]

Graph_increase_weight(G, key, weight) ==
    IF key \notin DOMAIN G.table
    THEN [self |-> G, err |-> UnknownKeyError]
    ELSE LET r == IntGraph_increase_weight(G.graph, G.table[key], weight)
         IN  [self |-> [G EXCEPT !.graph = r.self], err |-> r.err]

Graph_add_edge(G, src, dest) ==
    IF src \notin DOMAIN G.table \/ dest \notin DOMAIN G.table
    THEN [self |-> G, err |-> UnknownKeyError]
    ELSE LET r == IntGraph_add_edge(G.graph, G.table[src], G.table[dest])
         IN  [self |-> [G EXCEPT !.graph = r.self], err |-> r.err]

\* The path r of vertices as WeightedVertex(key, weight) pairs.
KeyedPath(G, r) ==
    [self |-> [G EXCEPT !.graph = r.self], err |-> r.err,
     path |-> [i \in 1..Len(r.path) |->
                  [vertex |-> G.keys[r.path[i].vertex + 1],
                   weight |-> r.path[i].weight]],
     cost |-> r.cost]

Graph_compute_max_cost_path(G) ==
    KeyedPath(G, IntGraph_compute_max_cost_path(G.graph))

(***************************************************************************)
(* class IntervalSet: graph is the Graph _graph, whose keys are Interval   *)
(* (start, finish) tuples.                                                 *)
(***************************************************************************)
Interval(start, finish) == [start |-> start, finish |-> finish]

WeightedInterval(start, finish, weight) ==
    [start |-> start, finish |-> finish, weight |-> weight]

IntervalSet_init == [graph |-> Graph_init]

\* Mutant of IntervalSet_check_values: a duration of zero is let through.
CheckValuesZeroDuration(start, finish, weight) ==
    IF ~isfinite(start) THEN NonFiniteStart
    ELSE IF ~isfinite(finish) THEN NonFiniteFinish
    ELSE IF ~isfinite(weight) THEN NonFiniteWeight
    ELSE LET duration == FloatSub(finish, start)
         IN  IF ~isfinite(duration) THEN NonFiniteDuration
             ELSE IF duration < 0 THEN NonpositiveDuration
             ELSE IF weight <= 0 THEN NonpositiveWeight
             ELSE NoError

IntervalSet_check_values(start, finish, weight) ==
    IF ~isfinite(start) THEN NonFiniteStart
    ELSE IF ~isfinite(finish) THEN NonFiniteFinish
    ELSE IF ~isfinite(weight) THEN NonFiniteWeight
    ELSE LET duration == FloatSub(finish, start)
         IN  IF ~isfinite(duration) THEN NonFiniteDuration
             ELSE IF duration <= 0 THEN NonpositiveDuration
             ELSE IF weight <= 0 THEN NonpositiveWeight
             ELSE NoError

\* Mutant of IntervalSet_add_edge_for: else where the code has the elif, so
\* that every interval that does not come after the new one gets an edge to it.
AddEdgeForElse(G, new_interval, old_interval) ==
    IF new_interval.finish <= old_interval.start
    THEN Graph_add_edge(G, new_interval, old_interval)
    ELSE Graph_add_edge(G, old_interval, new_interval)

\* Mutant of IntervalSet_add_edge_for: strict comparisons, so that intervals
\* that touch get no edge.
AddEdgeForStrict(G, new_interval, old_interval) ==
    IF new_interval.finish < old_interval.start
    THEN Graph_add_edge(G, new_interval, old_interval)
    ELSE IF old_interval.finish < new_interval.start
    THEN Graph_add_edge(G, old_interval, new_interval)
    ELSE [self |-> G, err |-> NoError]

\* The body of the for loop of add: the edge between the new interval and
\* one interval of the graph (which may be the new interval itself).
IntervalSet_add_edge_for(G, new_interval, old_interval) ==
    IF new_interval.finish <= old_interval.start
    THEN Graph_add_edge(G, new_interval, old_interval)
    ELSE IF old_interval.finish <= new_interval.start
    THEN Graph_add_edge(G, old_interval, new_interval)
    ELSE [self |-> G, err |-> NoError]

\* The for loop of add over self._graph.vertices; an exception leaves it.
RECURSIVE IntervalSet_add_edges(_, _, _)
IntervalSet_add_edges(G, new_interval, old_intervals) ==
    IF old_intervals = <<>> THEN [self |-> G, err |-> NoError]
    ELSE LET r == IntervalSet_add_edge_for(G, new_interval, Head(old_intervals))
         IN  IF r.err # NoError THEN r
             ELSE IntervalSet_add_edges(r.self, new_interval, Tail(old_intervals))

\* Mutant of IntervalSet_add: no return after increase_weight, so that the
\* for loop runs again for an interval that is already in the graph.
AddWithoutReturn(S, start, finish, weight) ==
    LET checked == IntervalSet_check_values(start, finish, weight)
        new_interval == Interval(start, finish)
        a == Graph_add_vertex(S.graph, new_interval, weight)
    IN  IF checked # NoError THEN [self |-> S, err |-> checked]
        ELSE IF a.err = DuplicateKeyError
        THEN LET w == Graph_increase_weight(a.self, new_interval, weight)
                 e == IntervalSet_add_edges(w.self, new_interval,
                                            Graph_vertices(w.self))
             IN  IF w.err # NoError THEN [self |-> [graph |-> w.self], err |-> w.err]
                 ELSE [self |-> [graph |-> e.self], err |-> e.err]
        ELSE IF a.err # NoError THEN [self |-> [graph |-> a.self], err |-> a.err]
        ELSE LET e == IntervalSet_add_edges(a.self, new_interval,
                                           Graph_vertices(a.self))
             IN  [self |-> [graph |-> e.self], err |-> e.err]

IntervalSet_add(S, start, finish, weight) ==
    LET checked == IntervalSet_check_values(start, finish, weight)
        new_interval == Interval(start, finish)
        a == Graph_add_vertex(S.graph, new_interval, weight)
    IN  IF checked # NoError THEN [self |-> S, err |-> checked]
        ELSE IF a.err = DuplicateKeyError
        THEN LET w == Graph_increase_weight(a.self, new_interval, weight)
             IN  [self |-> [graph |-> w.self], err |-> w.err]
        ELSE IF a.err # NoError THEN [self |-> [graph |-> a.self], err |-> a.err]
        ELSE LET e == IntervalSet_add_edges(a.self, new_interval,
                                           Graph_vertices(a.self))
             IN  [self |-> [graph |-> e.self], err |-> e.err]

\* The path r of keys as WeightedInterval(start, finish, weight) triples.
WeightedIntervals(r) ==
    [self |-> [graph |-> r.self], err |-> r.err,
     path |-> [i \in 1..Len(r.path) |->
                  WeightedInterval(r.path[i].vertex.start,
                                   r.path[i].vertex.finish,
                                   r.path[i].weight)],
     cost |-> r.cost]

IntervalSet_compute_max_cost_nonoverlapping_subset(S) ==
    WeightedIntervals(Graph_compute_max_cost_path(S.graph))

(***************************************************************************)
(* The state: one IntervalSet (intervals) driven through add and           *)
(* compute_max_cost_nonoverlapping_subset, or one bare IntGraph (graph)    *)
(* driven through its four methods: a behaviour drives one of the two, so  *)
(* a call on one is taken while the other is as constructed.  outcome is   *)
(* what the last call gave.  log is a history variable: the arguments of   *)
(* the successful add calls, in their order.                               *)
(***************************************************************************)
VARIABLES intervals, graph, outcome, log

vars == <<intervals, graph, outcome, log>>

SolveOp == "compute_max_cost_nonoverlapping_subset"

Outcome(op, err, path, cost) == [op |-> op, err |-> err, path |-> path, cost |-> cost]

\* Arguments of add: finite and non-finite floats.
TimeInputs == {-FloatMax} \cup (0..MaxTime) \cup {PosInf, NegInf, NaN}
WeightInputs == {0, 1, MaxWeight, PosInf, NaN}

\* Arguments of the IntGraph methods; vertices in and out of range.
GraphWeights == {-1, 1, MaxWeight}
GraphVertices == -1..MaxVertices

Init ==
    /\ intervals = IntervalSet_init
    /\ graph = IntGraph_init
    /\ outcome = Outcome("init", NoError, <<>>, 0)
    /\ log = <<>>

\* intervals.add(start, finish, weight)
Add(start, finish, weight) ==
    /\ graph = IntGraph_init
    /\ Len(log) < MaxAdds
    /\ LET r == IntervalSet_add(intervals, start, finish, weight)
       IN  /\ intervals' = r.self
           /\ outcome' = Outcome("add", r.err, <<>>, 0)
           /\ log' = IF r.err = NoError
                     THEN Append(log, WeightedInterval(start, finish, weight))
                     ELSE log
    /\ UNCHANGED graph

\* intervals.compute_max_cost_nonoverlapping_subset()
Solve ==
    /\ graph = IntGraph_init
    /\ LET r == IntervalSet_compute_max_cost_nonoverlapping_subset(intervals)
       IN  /\ intervals' = r.self
           /\ outcome' = Outcome(SolveOp, r.err, r.path, r.cost)
    /\ UNCHANGED <<graph, log>>

\* graph.add_vertex(weight)
AddVertex(weight) ==
    /\ intervals = IntervalSet_init
    /\ IntGraph_order(graph) < MaxVertices
    /\ LET r == IntGraph_add_vertex(graph, weight)
       IN  /\ graph' = r.self
           /\ outcome' = Outcome("add_vertex", r.err, <<>>, 0)
    /\ UNCHANGED <<intervals, log>>

\* graph.increase_weight(vertex, weight)
IncreaseWeight(vertex, weight) ==
    /\ intervals = IntervalSet_init
    /\ LET r == IntGraph_increase_weight(graph, vertex, weight)
       IN  /\ graph' = r.self
           /\ outcome' = Outcome("increase_weight", r.err, <<>>, 0)
    /\ UNCHANGED <<intervals, log>>

\* graph.add_edge(src, dest)
AddEdge(src, dest) ==
    /\ intervals = IntervalSet_init
    /\ IntGraph_size(graph) < MaxEdges
    /\ LET r == IntGraph_add_edge(graph, src, dest)
       IN  /\ graph' = r.self
           /\ outcome' = Outcome("add_edge", r.err, <<>>, 0)
    /\ UNCHANGED <<intervals, log>>

\* graph.compute_max_cost_path()
ComputeMaxCostPath ==
    /\ intervals = IntervalSet_init
    /\ LET r == IntGraph_compute_max_cost_path(graph)
       IN  /\ graph' = r.self
           /\ outcome' = Outcome("compute_max_cost_path", r.err, r.path, r.cost)
    /\ UNCHANGED <<intervals, log>>

Next ==
    \/ \E start \in TimeInputs, finish \in TimeInputs, weight \in WeightInputs :
          Add(start, finish, weight)
    \/ Solve
    \/ \E weight \in GraphWeights : AddVertex(weight)
    \/ \E vertex \in GraphVertices, weight \in GraphWeights :
          IncreaseWeight(vertex, weight)
    \/ \E src \in GraphVertices, dest \in GraphVertices : AddEdge(src, dest)
    \/ ComputeMaxCostPath

Spec == Init /\ [][Next]_vars

(***************************************************************************)
(* Vocabulary of the properties.                                           *)
(***************************************************************************)
\* The last call was a solve that returned a path and a cost.
Solved == outcome.op = SolveOp /\ outcome.err = NoError

\* The last call was IntGraph.compute_max_cost_path and it returned.
Computed == outcome.op = "compute_max_cost_path" /\ outcome.err = NoError

StoredKeys == intervals.graph.keys
StoredGraph == intervals.graph.graph
StoredCount == Len(StoredKeys)

\* The stored interval a may come before the stored interval b.
Precedes(a, b) == a.finish <= b.start

NonOverlapping(a, b) == Precedes(a, b) \/ Precedes(b, a)

\* The intervals added so far, and the largest weight each was added with.
AddedIntervals == {Interval(log[i].start, log[i].finish) : i \in 1..Len(log)}

MergedWeight(interval) ==
    LET ws == {log[i].weight : i \in {j \in 1..Len(log) :
                   Interval(log[j].start, log[j].finish) = interval}}
    IN  CHOOSE w \in ws : \A v \in ws : v <= w

RECURSIVE TotalWeight(_)
TotalWeight(subset) ==
    IF subset = {} THEN 0
    ELSE LET a == CHOOSE x \in subset : TRUE
         IN  MergedWeight(a) + TotalWeight(subset \ {a})

\* The subsets of the added intervals that are pairwise non-overlapping.
Schedules ==
    {subset \in SUBSET AddedIntervals :
        \A a \in subset, b \in subset : a # b => NonOverlapping(a, b)}

\* Exhaustive search: the largest total weight of a schedule.
BruteForceMax ==
    LET totals == {TotalWeight(subset) : subset \in Schedules}
    IN  CHOOSE t \in totals : \A u \in totals : u <= t

RECURSIVE SumOfWeights(_)
SumOfWeights(path) ==
    IF path = <<>> THEN 0 ELSE Head(path).weight + SumOfWeights(Tail(path))

\* How many times dest is listed among the successors of src.
EdgeCount(g, src, dest) ==
    Cardinality({i \in 1..Len(g.adj[src + 1]) : g.adj[src + 1][i] = dest})

(***************************************************************************)
(* C1.  After one or more successful add calls, the cost returned by       *)
(* compute_max_cost_nonoverlapping_subset is the largest total weight of a *)
(* pairwise non-overlapping subset of the added intervals (an interval     *)
(* added several times counting once, with its largest weight), as found   *)
(* by exhaustive search over all subsets.                                  *)
(***************************************************************************)
C1_CostIsBruteForceOptimum == Solved => outcome.cost = BruteForceMax

\* A solve on three intervals of which two overlap, where the best schedule
\* has two intervals and leaves the third out.
C1_Witness ==
    /\ Solved
    /\ Cardinality(AddedIntervals) = 3
    /\ Len(outcome.path) = 2
    /\ \E a \in AddedIntervals, b \in AddedIntervals : ~NonOverlapping(a, b) /\ a # b

(***************************************************************************)
(* C2.  In every path returned by compute_max_cost_nonoverlapping_subset,  *)
(* each interval finishes no later than the next one starts, and so the    *)
(* intervals of the path are pairwise non-overlapping.                     *)
(***************************************************************************)
C2_PathIsNonOverlapping ==
    Solved =>
        /\ \A i \in 1..(Len(outcome.path) - 1) :
              outcome.path[i].finish <= outcome.path[i + 1].start
        /\ \A i \in 1..Len(outcome.path), j \in 1..Len(outcome.path) :
              i # j => NonOverlapping(outcome.path[i], outcome.path[j])

\* A returned path of three intervals.
C2_Witness == Solved /\ Len(outcome.path) = 3

(***************************************************************************)
(* C3.  The cost returned by compute_max_cost_nonoverlapping_subset, and   *)
(* by IntGraph.compute_max_cost_path on an acyclic graph, is the sum of    *)
(* the weights listed in the returned path, and each listed weight is the  *)
(* weight the graph now stores for that vertex.                            *)
(***************************************************************************)
C3_CostIsSumOfPathWeights ==
    /\ Solved =>
          /\ outcome.cost = SumOfWeights(outcome.path)
          /\ \A i \in 1..Len(outcome.path) :
                LET key == Interval(outcome.path[i].start, outcome.path[i].finish)
                IN  /\ key \in DOMAIN intervals.graph.table
                    /\ outcome.path[i].weight =
                          StoredGraph.weights[intervals.graph.table[key] + 1]
    /\ Computed =>
          /\ outcome.cost = SumOfWeights(outcome.path)
          /\ \A i \in 1..Len(outcome.path) :
                outcome.path[i].weight = graph.weights[outcome.path[i].vertex + 1]

\* A returned path of two intervals, one of which was added twice and is
\* listed with the larger weight, which is not the weight of its last add.
C3_Witness ==
    /\ Solved
    /\ Len(outcome.path) = 2
    /\ \E i \in 1..Len(outcome.path), j \in 1..Len(log), k \in 1..Len(log) :
          /\ j < k
          /\ Interval(log[j].start, log[j].finish) =
                Interval(outcome.path[i].start, outcome.path[i].finish)
          /\ Interval(log[k].start, log[k].finish) =
                Interval(outcome.path[i].start, outcome.path[i].finish)
          /\ log[k].weight < log[j].weight
          /\ outcome.path[i].weight = log[j].weight

(***************************************************************************)
(* C4.  Whatever add calls were made, for every two stored intervals A and *)
(* B the graph has an edge from A to B exactly when A finishes no later    *)
(* than B starts; so no interval has an edge to itself and overlapping     *)
(* intervals have no edge between them.                                    *)
(***************************************************************************)
C4_EdgeIffPrecedes ==
    /\ \A i \in 1..StoredCount, j \in 1..StoredCount :
          (EdgeCount(StoredGraph, i - 1, j - 1) > 0)
              <=> Precedes(StoredKeys[i], StoredKeys[j])
    /\ \A i \in 1..StoredCount : EdgeCount(StoredGraph, i - 1, i - 1) = 0
    /\ \A i \in 1..StoredCount, j \in 1..StoredCount :
          ~NonOverlapping(StoredKeys[i], StoredKeys[j])
              => EdgeCount(StoredGraph, i - 1, j - 1) = 0

\* Three stored intervals after the third add: two of them overlap, and the
\* third has an edge to each of the two.
C4_Witness ==
    /\ outcome.op = "add"
    /\ StoredCount = 3
    /\ StoredGraph.size = 2
    /\ \E i \in 1..StoredCount, j \in 1..StoredCount :
          i # j /\ ~NonOverlapping(StoredKeys[i], StoredKeys[j])

(***************************************************************************)
(* C5.  An add of a (start, finish) that is already stored leaves exactly  *)
(* one vertex for that interval, whose weight is the largest weight the    *)
(* interval was added with (max(w1, w2) at the second add), and leaves the *)
(* vertices, the adjacency lists, the in-degrees and the edge count as     *)
(* they were: no edge is added or removed.                                 *)
(***************************************************************************)
\* The step is a successful add of an interval that was already stored.
RepeatedAdd ==
    /\ Len(log') = Len(log) + 1
    /\ Interval(log'[Len(log')].start, log'[Len(log')].finish)
          \in DOMAIN intervals.graph.table

LargestAddedWeight(adds, interval) ==
    LET ws == {adds[i].weight : i \in {j \in 1..Len(adds) :
                   Interval(adds[j].start, adds[j].finish) = interval}}
    IN  CHOOSE w \in ws : \A v \in ws : v <= w

\* C5: an add of a stored interval keeps one vertex for it, with the largest
\* weight added, and adds or removes no vertex and no edge.
C5_RepeatedAddMergesWeight ==
    [][RepeatedAdd =>
          LET added == log'[Len(log')]
              key == Interval(added.start, added.finish)
              vertex == intervals.graph.table[key]
              before == intervals.graph.graph
              after == intervals'.graph.graph
          IN  /\ Cardinality({i \in 1..Len(intervals'.graph.keys) :
                                 intervals'.graph.keys[i] = key}) = 1
              /\ after.weights[vertex + 1] = LargestAddedWeight(log', key)
              /\ after.weights[vertex + 1] =
                    (IF before.weights[vertex + 1] >= added.weight
                     THEN before.weights[vertex + 1] ELSE added.weight)
              /\ \A v \in 1..Len(before.weights) :
                    v # vertex + 1 => after.weights[v] = before.weights[v]
              /\ intervals'.graph.keys = intervals.graph.keys
              /\ intervals'.graph.table = intervals.graph.table
              /\ Len(after.adj) = Len(before.adj)
              /\ after.adj = before.adj
              /\ after.indegrees = before.indegrees
              /\ after.size = before.size]_vars

\* Two intervals with an edge between them, the first added again with a
\* smaller weight than before.
C5_Witness ==
    /\ outcome.op = "add" /\ outcome.err = NoError
    /\ Len(log) = 3 /\ StoredCount = 2 /\ StoredGraph.size = 1
    /\ Interval(log[3].start, log[3].finish) = Interval(log[1].start, log[1].finish)
    /\ log[3].weight < log[1].weight
    /\ StoredGraph.weights[1] = log[1].weight

(***************************************************************************)
(* C6.  add(start, finish, weight) fails with a validation error whenever  *)
(* start, finish or weight is not finite, finish - start is not finite or  *)
(* is <= 0, or weight is <= 0; and an add that fails leaves the set as it  *)
(* was: the same vertices, weights, edges and edge count.  Stated of the   *)
(* add of every such argument to the set of every reachable state, and of  *)
(* the state every failed add leaves.                                      *)
(***************************************************************************)
ValidationErrors ==
    {NonFiniteStart, NonFiniteFinish, NonFiniteWeight,
     NonFiniteDuration, NonpositiveDuration, NonpositiveWeight}

NonFinite == {PosInf, NegInf, NaN}

\* The arguments the claim says are rejected.
Invalid(start, finish, weight) ==
    \/ start \in NonFinite \/ finish \in NonFinite \/ weight \in NonFinite
    \/ finish - start > FloatMax
    \/ finish - start <= 0
    \/ weight <= 0

\* The set as the successful adds alone built it (see C7).
RECURSIVE Replay(_, _)
Replay(adds, n) ==
    IF n = 0 THEN IntervalSet_init
    ELSE IntervalSet_add(Replay(adds, n - 1),
                         adds[n].start, adds[n].finish, adds[n].weight).self

\* C6: add of invalid arguments fails with a validation error, and a failed
\* add leaves the set unchanged.
C6_InvalidAddFailsAndChangesNothing ==
    /\ \A start \in TimeInputs, finish \in TimeInputs, weight \in WeightInputs :
          Invalid(start, finish, weight) =>
              LET r == IntervalSet_add(intervals, start, finish, weight)
              IN  r.err \in ValidationErrors /\ r.self = intervals
    /\ (outcome.op = "add" /\ outcome.err # NoError) =>
          /\ outcome.err \in ValidationErrors
          /\ intervals = Replay(log, Len(log))

\* An add whose duration overflows, rejected by a set of two intervals with
\* an edge.
C6_Witness ==
    /\ outcome.op = "add" /\ outcome.err = NonFiniteDuration
    /\ StoredCount = 2 /\ StoredGraph.size = 1

(***************************************************************************)
(* C7.  compute_max_cost_nonoverlapping_subset changes nothing of the set: *)
(* after any interleaving of adds and solves the set is the one a fresh    *)
(* set gets from the same adds alone, and a solve returns what a solve on  *)
(* that fresh set returns (so two solves with no add between them return   *)
(* the same path and cost).                                                *)
(***************************************************************************)
\* Replay(log, Len(log)) is a fresh IntervalSet that received the adds of
\* log in their order, and no solve.
SolveOf(S) == IntervalSet_compute_max_cost_nonoverlapping_subset(S)

SameResult(r) ==
    outcome.err = r.err /\ outcome.path = r.path /\ outcome.cost = r.cost

\* C7: solves change nothing, and return what a fresh set with the same adds
\* returns.
C7_SolveIsReadOnly ==
    /\ intervals = Replay(log, Len(log))
    /\ outcome.op = SolveOp => SameResult(SolveOf(Replay(log, Len(log))))

\* A solve on three intervals with edges.
C7_Witness ==
    /\ Solved
    /\ StoredCount = 3
    /\ StoredGraph.size >= 2
    /\ \E v \in 1..StoredCount : StoredGraph.indegrees[v] = 2

(***************************************************************************)
(* C8.  The cost returned by compute_max_cost_nonoverlapping_subset is the *)
(* one it returns for every other order of the same add calls, also when   *)
(* an interval is added several times with different weights.              *)
(***************************************************************************)
Permutations(n) ==
    {p \in [1..n -> 1..n] : \A i \in 1..n, j \in 1..n : p[i] = p[j] => i = j}

Permuted(adds, p) == [i \in 1..Len(adds) |-> adds[p[i]]]

\* C8: every permutation of the adds gives the same cost.
C8_CostIsOrderIndependent ==
    Solved =>
        \A p \in Permutations(Len(log)) :
            LET r == SolveOf(Replay(Permuted(log, p), Len(log)))
            IN  r.err = NoError /\ r.cost = outcome.cost

\* A solve after three adds, two of them of the same interval with different
\* weights, the smaller weight last.
C8_Witness ==
    /\ Solved
    /\ Len(log) = 3
    /\ \E i \in 1..3, j \in 1..3 :
          /\ i < j
          /\ Interval(log[i].start, log[i].finish) = Interval(log[j].start, log[j].finish)
          /\ log[j].weight < log[i].weight
    /\ StoredCount = 2

(***************************************************************************)
(* C9.  compute_max_cost_nonoverlapping_subset fails with the empty-graph  *)
(* error on a set on which no add has succeeded, and after a successful    *)
(* add it does not fail with that error.                                   *)
(***************************************************************************)
C9_EmptyGraphErrorIffNoAdd ==
    outcome.op = SolveOp => (outcome.err = EmptyGraphError <=> Len(log) = 0)

\* A solve on a set with one interval and no edge, which returns.
C9_Witness ==
    /\ outcome.op = SolveOp /\ outcome.err = NoError
    /\ Len(log) = 1 /\ StoredGraph.size = 0

(***************************************************************************)
(* C10.  Through add and compute_max_cost_nonoverlapping_subset the only   *)
(* errors are validation errors, from add, and the empty-graph error, from *)
(* solve: no cyclic-graph, out-of-range, unknown-key or duplicate-key      *)
(* error reaches the caller, and the graph that add builds has no cycle.   *)
(***************************************************************************)
Successors(g, v) == {g.adj[v + 1][i] : i \in 1..Len(g.adj[v + 1])}

\* The vertices that can be reached from vertex v by n edges or fewer.
RECURSIVE Reachable(_, _, _)
Reachable(g, v, n) ==
    IF n = 0 THEN {v}
    ELSE LET near == Reachable(g, v, n - 1)
         IN  near \cup UNION {Successors(g, u) : u \in near}

\* No vertex can be reached from one of its successors.
Acyclic(g) ==
    \A v \in 0..(IntGraph_order(g) - 1) :
        \A u \in Successors(g, v) : v \notin Reachable(g, u, IntGraph_order(g))

\* C10: add fails only with validation errors, solve only with the
\* empty-graph error, and the graph of the set is acyclic.
C10_OnlyValidationAndEmptyGraphErrors ==
    /\ outcome.op = "add" => outcome.err \in {NoError} \cup ValidationErrors
    /\ outcome.op = SolveOp => outcome.err \in {NoError, EmptyGraphError}
    /\ Acyclic(StoredGraph)

\* An add of an interval that was already stored (the duplicate-key error
\* was raised and caught), which returned; the graph has an edge.
C10_Witness ==
    /\ outcome.op = "add" /\ outcome.err = NoError
    /\ Len(log) > StoredCount
    /\ StoredGraph.size >= 1

(***************************************************************************)
(* C11.  On an IntGraph with at least one vertex, built by add_vertex and  *)
(* add_edge (self-loops and repeated edges included),                      *)
(* compute_max_cost_path fails with the cyclic-graph error exactly when    *)
(* the graph has a directed cycle; on a graph without one the order that   *)
(* _kahn_toposort gives lists every vertex exactly once and lists the      *)
(* source of every edge before its destination.                            *)
(***************************************************************************)
\* Where vertex v is in the order.
PositionIn(tsort, v) == CHOOSE i \in 1..Len(tsort) : tsort[i] = v

\* The order lists each vertex of g once, and every edge goes forward in it.
IsTopologicalOrder(g, tsort) ==
    /\ Len(tsort) = IntGraph_order(g)
    /\ \A v \in 0..(IntGraph_order(g) - 1) :
          Cardinality({i \in 1..Len(tsort) : tsort[i] = v}) = 1
    /\ \A src \in 0..(IntGraph_order(g) - 1) :
          \A dest \in Successors(g, src) :
              PositionIn(tsort, src) < PositionIn(tsort, dest)

\* C11: the cyclic-graph error is raised exactly for the graphs with a
\* cycle; otherwise the Kahn order is a topological order of all vertices.
C11_CyclicErrorIffCycle ==
    IntGraph_order(graph) >= 1 =>
        /\ IntGraph_compute_max_cost_path(graph).err = CyclicGraphError
              <=> ~Acyclic(graph)
        /\ outcome.op = "compute_max_cost_path" =>
              (outcome.err = CyclicGraphError <=> ~Acyclic(graph))
        /\ Acyclic(graph) =>
              /\ IntGraph_kahn_toposort(graph).err = NoError
              /\ IsTopologicalOrder(graph, IntGraph_kahn_toposort(graph).tsort)

\* compute_max_cost_path has raised the cyclic-graph error on a graph of two
\* vertices with an edge each way and no self-loop.
C11_Witness ==
    /\ outcome.op = "compute_max_cost_path"
    /\ outcome.err = CyclicGraphError
    /\ IntGraph_order(graph) = 2
    /\ EdgeCount(graph, 0, 1) = 1 /\ EdgeCount(graph, 1, 0) = 1

(***************************************************************************)
(* C12.  The path that IntGraph.compute_max_cost_path returns ends in the  *)
(* lowest-numbered vertex among those of the largest best-cost; each       *)
(* vertex of the path is followed by the vertex it is the parent of, and   *)
(* the first one has no parent (the path is in root-to-finish order); when *)
(* all weights are positive the first vertex has in-degree 0.              *)
(***************************************************************************)
Predecessors(g, v) == {u \in 0..(IntGraph_order(g) - 1) : v \in Successors(g, u)}

Largest(values) == CHOOSE x \in values : \A y \in values : y <= x

\* The largest total weight of a path of n edges or fewer that ends in v.
RECURSIVE BestCost(_, _, _)
BestCost(g, v, n) ==
    IF n = 0 \/ Predecessors(g, v) = {} THEN g.weights[v + 1]
    ELSE Largest({g.weights[v + 1]} \cup
                 {BestCost(g, u, n - 1) + g.weights[v + 1] : u \in Predecessors(g, v)})

Best(g, v) == BestCost(g, v, IntGraph_order(g))

\* C12: the last vertex is the first one of the largest best-cost, the path
\* follows the parent pointers from a vertex without parent, and that vertex
\* has no incoming edge when all weights are positive.
C12_PathEndsAtFirstBestVertex ==
    Computed =>
        LET path == outcome.path
            last == path[Len(path)].vertex
            first == path[1].vertex
            tree == IntGraph_compute_max_weight_paths_tree(graph)
        IN  /\ Len(path) >= 1
            /\ \A v \in 0..(IntGraph_order(graph) - 1) :
                  /\ Best(graph, v) <= Best(graph, last)
                  /\ v < last => Best(graph, v) < Best(graph, last)
            /\ outcome.cost = Best(graph, last)
            /\ tree.tree.costs = [i \in 1..IntGraph_order(graph) |-> Best(graph, i - 1)]
            /\ \A i \in 1..(Len(path) - 1) :
                  /\ tree.tree.parents[path[i + 1].vertex + 1] = path[i].vertex
                  /\ path[i].vertex \in Predecessors(graph, path[i + 1].vertex)
                  /\ Best(graph, path[i + 1].vertex) =
                        Best(graph, path[i].vertex) + graph.weights[path[i + 1].vertex + 1]
            /\ tree.tree.parents[first + 1] = None
            /\ \A u \in Predecessors(graph, first) : Best(graph, u) <= 0
            /\ (\A i \in 1..Len(graph.weights) : graph.weights[i] > 0)
                  => graph.indegrees[first + 1] = 0

\* Two vertices of the same weight and no edge: the path is vertex 0 alone.
C12_Witness ==
    /\ Computed
    /\ IntGraph_order(graph) = 2
    /\ graph.size = 0
    /\ graph.weights[1] = graph.weights[2]
    /\ outcome.path = <<[vertex |-> 0, weight |-> graph.weights[1]]>>

(***************************************************************************)
(* C13.  IntGraph.add_edge accepts an edge that is already present.  On an *)
(* acyclic graph, adding such an edge again adds one to the in-degree of   *)
(* its destination and to the number of edges; compute_max_cost_path then  *)
(* returns the cost it returned before and raises no cyclic-graph error.   *)
(***************************************************************************)
\* The graph after add_edge(src, dest).
WithEdge(g, src, dest) == IntGraph_add_edge(g, src, dest).self

\* C13: adding a present edge of an acyclic graph again succeeds, counts the
\* edge once more, and leaves the result of compute_max_cost_path as it was.
C13_DuplicateEdgeIsHarmless ==
    Acyclic(graph) =>
        \A src \in 0..(IntGraph_order(graph) - 1) :
            \A dest \in Successors(graph, src) :
                /\ IntGraph_add_edge(graph, src, dest).err = NoError
                /\ WithEdge(graph, src, dest).indegrees[dest + 1] =
                      graph.indegrees[dest + 1] + 1
                /\ IntGraph_size(WithEdge(graph, src, dest)) = IntGraph_size(graph) + 1
                /\ EdgeCount(WithEdge(graph, src, dest), src, dest) =
                      EdgeCount(graph, src, dest) + 1
                /\ IntGraph_compute_max_cost_path(WithEdge(graph, src, dest)).err = NoError
                /\ IntGraph_compute_max_cost_path(graph).err = NoError
                /\ IntGraph_compute_max_cost_path(WithEdge(graph, src, dest)).cost =
                      IntGraph_compute_max_cost_path(graph).cost

\* compute_max_cost_path has returned a path along an edge that was added
\* twice.
C13_Witness ==
    /\ Computed
    /\ IntGraph_order(graph) = 2
    /\ EdgeCount(graph, 0, 1) = 2
    /\ graph.indegrees[2] = 2
    /\ IntGraph_size(graph) = 2
    /\ Len(outcome.path) = 2

=============================================================================
